---- MODULE Spec2Model ----
(***************************************************************************)
(* Model of the predictive-and-alerting pipeline of air-pollution-minibot: *)
(*   resources/spike.py    spike detection, cooldown, alert orchestration  *)
(*   resources/email.py    alert dispatch and alert log                    *)
(*   resources/settings.py the append-only settings log                    *)
(*   ai/prediction.py      the AQI forecast                                *)
(*   index.py              the /api/dashboard handler                      *)
(*                                                                         *)
(* Conventions.  An optional value (Python None, SQL NULL) is the empty    *)
(* sequence None; a present value v is <<v>>.  Sensor values are in tenths *)
(* (35.0 is 350), wall-clock instants are whole seconds.                   *)
(***************************************************************************)
EXTENDS Integers, Sequences, FiniteSets, TLC

None == << >>
Some(v) == << v >>
IsSome(o) == o # None
Val(o) == o[1]

Max2(a, b) == IF a >= b THEN a ELSE b
Min2(a, b) == IF a <= b THEN a ELSE b

RECURSIVE SumSeq(_)
SumSeq(s) == IF s = << >> THEN 0 ELSE Head(s) + SumSeq(Tail(s))

(***************************************************************************)
(* Bounds of the model.                                                    *)
(***************************************************************************)
\* the wall clock stops advancing here (seconds)
MaxClock == 120
\* rows the settings log may hold
MaxSettingsRows == 2
\* orchestration cycles started in one behaviour
MaxCycles == 2
\* rows the table dsm501a_readings may hold
MaxDsmRows == 3
\* rows the table dashboard_readings may hold
MaxDashboardRows == 1
MaxBaselineHistory == 3
EdgeWidth == 5

\* the two request threads that may run handle_new_reading_for_dashboard
Procs == { 1, 2 }
\* the amounts (seconds) by which the wall clock advances between steps
ClockSteps == {60}

(***************************************************************************)
(* resources/spike.py: tables.                                             *)
(***************************************************************************)
SENSOR_KEYS ==
    << "aqi", "pm25", "pm10", "temp", "humidity", "toxic", "flammable", "smoke", "voc" >>

SensorKeySet == { SENSOR_KEYS[i] : i \in 1..Len(SENSOR_KEYS) }

\* tenths
DEFAULT_ABSOLUTE_THRESHOLDS ==
    [ aqi |-> 1500, pm25 |-> 350, pm10 |-> 500, temp |-> 320, humidity |-> 750,
      toxic |-> 10, flammable |-> 10, smoke |-> 10, voc |-> 3000 ]

\* tenths
MIN_RELATIVE_INCREASE ==
    [ aqi |-> 250, pm25 |-> 100, pm10 |-> 150, temp |-> 20, humidity |-> 50,
      toxic |-> 2, flammable |-> 2, smoke |-> 2, voc |-> 500 ]

\* relative_factor = 1.4, as the fraction RelFactorNum / RelFactorDen
RelFactorNum == 14
RelFactorDen == 10

\* default_minutes of _get_cooldown_minutes_from_settings
DefaultCooldownMinutes == 30
\* the floor max(minutes, 1)
MinCooldownMinutes == 1
\* total_seconds() / 60.0
SecondsPerMinute == 60

(***************************************************************************)
(* Readings.  A Reading is [timestamp, values]; values maps every sensor   *)
(* key to an optional value (a key missing from the dict reads as None).   *)
(***************************************************************************)
NoValues == [ k \in SensorKeySet |-> None ]
Values(r) == [ k \in SensorKeySet |-> IF k \in DOMAIN r THEN Some(r[k]) ELSE None ]
Reading(ts, r) == [ timestamp |-> ts, values |-> Values(r) ]

\* _compute_baseline: per sensor the values of history[:-1]; a baseline
\* entry is the pair [sum, n] standing for the mean sum / n.
PriorValues(history, key) ==
    LET prior == SubSeq(history, 1, Len(history) - 1)
    IN  SelectSeq([ i \in 1..Len(prior) |-> prior[i].values[key] ], IsSome)

\* the baseline taken over the whole history, the current reading included
compute_baseline_with_current(history) ==
    IF Len(history) < 2 THEN None
    ELSE LET all(k) == SelectSeq([ i \in 1..Len(history) |-> history[i].values[k] ], IsSome)
             keys == { k \in SensorKeySet : all(k) # << >> }
         IN  IF keys = {} THEN None
             ELSE Some([ k \in keys |->
                           [ sum |-> SumSeq([ i \in 1..Len(all(k)) |-> Val(all(k)[i]) ]),
                             n |-> Len(all(k)) ] ])

compute_baseline(history) ==
    IF Len(history) < 2 THEN None
    ELSE LET keys == { k \in SensorKeySet : PriorValues(history, k) # << >> }
         IN  IF keys = {} THEN None
             ELSE Some([ k \in keys |->
                           LET vs == PriorValues(history, k)
                           IN  [ sum |-> SumSeq([ i \in 1..Len(vs) |-> Val(vs[i]) ]),
                                 n |-> Len(vs) ] ])

\* the absolute rule of detect_spiking_sensors
AbsoluteSpike(current, thresholds, key) ==
    key \in DOMAIN thresholds /\ current >= thresholds[key]

\* thresholds = dict(DEFAULT_ABSOLUTE_THRESHOLDS), updated with the argument
thresholds_with(absolute_thresholds) ==
    [ k \in SensorKeySet |->
        IF IsSome(absolute_thresholds) /\ k \in DOMAIN Val(absolute_thresholds)
        THEN Val(absolute_thresholds)[k]
        ELSE DEFAULT_ABSOLUTE_THRESHOLDS[k] ]

\* the relative rule without the minimum increase
RelativeSpikeNoDelta(current, baseline_values, key) ==
    /\ IsSome(baseline_values)
    /\ key \in DOMAIN Val(baseline_values)
    /\ LET b == Val(baseline_values)[key]
       IN  /\ b.sum > 0
           /\ current * b.n * RelFactorDen >= b.sum * RelFactorNum

\* the relative rule: baseline > 0, current >= baseline * relative_factor and
\* current - baseline >= min_delta, with baseline = sum / n
RelativeSpike(current, baseline_values, key) ==
    /\ IsSome(baseline_values)
    /\ key \in DOMAIN Val(baseline_values)
    /\ LET b == Val(baseline_values)[key]
       IN  /\ b.sum > 0
           /\ current * b.n * RelFactorDen >= b.sum * RelFactorNum
           /\ current * b.n - b.sum >= MIN_RELATIVE_INCREASE[key] * b.n

\* the loop without `continue` after an absolute match: a key that matches
\* both rules is appended by each
RECURSIVE detect_from(_, _, _, _)
detect_from(i, current_values, baseline_values, thresholds) ==
    IF i > Len(SENSOR_KEYS) THEN << >>
    ELSE LET key == SENSOR_KEYS[i]
             present == IsSome(current_values[key])
             by_abs == IF present /\ AbsoluteSpike(Val(current_values[key]), thresholds, key)
                       THEN << key >> ELSE << >>
             by_rel == IF present /\ RelativeSpike(Val(current_values[key]), baseline_values, key)
                       THEN << key >> ELSE << >>
         IN  by_abs \o by_rel
                \o detect_from(i + 1, current_values, baseline_values, thresholds)

detect_spiking_sensors_twice(current_values, baseline_values, thresholds) ==
    detect_from(1, current_values, baseline_values, thresholds)

\* compute_aqi_trend: None for fewer than 2 readings, no aqi value, or no
\* time between the first and the last aqi value; else the slope per minute
\* (the fraction num / den) between them and
\* predicted_peak = last_aqi + slope * default_window_minutes, rounded down
compute_aqi_trend(history, default_window_minutes) ==
    LET with_aqi == SelectSeq(history, LAMBDA r : IsSome(r.values["aqi"]))
        first == with_aqi[1]
        last == with_aqi[Len(with_aqi)]
        first_aqi == Val(first.values["aqi"])
        last_aqi == Val(last.values["aqi"])
        delta_seconds == last.timestamp - first.timestamp
    IN  IF Len(history) < 2 THEN None
        ELSE IF with_aqi = << >> THEN None
        ELSE IF delta_seconds <= 0 THEN None
        ELSE Some([ slope |-> [ num |-> (last_aqi - first_aqi) * SecondsPerMinute,
                                den |-> delta_seconds ],
                    current_aqi |-> last_aqi,
                    predicted_peak |->
                        last_aqi + ((last_aqi - first_aqi) * SecondsPerMinute
                                        * default_window_minutes) \div delta_seconds ])

\* detect_spiking_sensors: the keys, in SENSOR_KEYS order, that spike
detect_spiking_sensors(current_values, baseline_values, thresholds) ==
    SelectSeq(SENSOR_KEYS,
              LAMBDA key :
                 /\ IsSome(current_values[key])
                 /\ \/ AbsoluteSpike(Val(current_values[key]), thresholds, key)
                    \/ RelativeSpike(Val(current_values[key]), baseline_values, key))


(***************************************************************************)
(* resources/settings.py: the settings log.                                *)
(***************************************************************************)
SettingsRow(email, notifications, forecast_duration) ==
    [ email |-> email, notifications |-> notifications,
      forecast_duration |-> forecast_duration ]

\* the rows a user saves through /api/settings/save
SettingsInputs ==
    { SettingsRow(Some("user@example.com"), TRUE, Some(2)),
      SettingsRow(Some("user@example.com"), TRUE, Some(0)),
      SettingsRow(Some("user@example.com"), FALSE, None),
      SettingsRow(Some(""), TRUE, None),
      SettingsRow(None, TRUE, None) }

\* the read with ORDER BY id ASC: the oldest row
get_oldest_settings(rows) ==
    IF rows = << >> THEN None ELSE Some(rows[1])

\* get_latest_settings over a table: None without rows, else the newest row
get_latest_settings(rows) ==
    IF rows = << >> THEN None ELSE Some(rows[Len(rows)])

\* settings.get("forecast_duration") of `get_latest_settings() or {}`
ForecastDurationOf(settings) ==
    IF IsSome(settings) THEN Val(settings).forecast_duration ELSE None

\* A forecast_duration that int() refuses (a text such as 'abc') is the pair
\* << "text", s >>; int(value) succeeds on Some(n) and raises TypeError on None
\* and ValueError on a text.
StoredText(s) == << "text", s >>
IntConverts(value) == Len(value) = 1

\* the cooldown without the floor max(minutes, 1)
cooldown_minutes_unfloored(settings) ==
    LET value == ForecastDurationOf(settings)
    IN  IF IntConverts(value) THEN Val(value) ELSE DefaultCooldownMinutes

\* _get_cooldown_minutes_from_settings, given what the settings read returned
\* (None: no row, or the read raised and settings = {})
cooldown_minutes_from_settings(settings) ==
    LET value == ForecastDurationOf(settings)
        minutes == IF IntConverts(value) THEN Val(value) ELSE DefaultCooldownMinutes
    IN  Max2(minutes, MinCooldownMinutes)

\* the cooldown guard with the elapsed seconds compared to the minutes
CooldownElapsedInSeconds(now, last_sent, cooldown_minutes) ==
    \/ last_sent = None
    \/ ~ ((now - Val(last_sent)) < cooldown_minutes)

\* the cooldown guard permitting only after more than the cooldown
CooldownElapsedStrict(now, last_sent, cooldown_minutes) ==
    \/ last_sent = None
    \/ (now - Val(last_sent)) > cooldown_minutes * SecondsPerMinute

\* the cooldown guard of handle_new_reading_for_dashboard (lines 330-334)

CooldownElapsed(now, last_sent, cooldown_minutes) ==
    \/ last_sent = None
    \/ ~ ((now - Val(last_sent)) < cooldown_minutes * SecondsPerMinute)

(***************************************************************************)
(* Histories handed to the orchestration by its caller.                    *)
(***************************************************************************)
CalmHistory == << Reading(0, [ aqi |-> 400, pm25 |-> 80 ]) >>

RisingHistory ==
    << Reading(0,   [ aqi |-> 1100, pm25 |-> 200 ]),
       Reading(60,  [ aqi |-> 1200, pm25 |-> 220 ]),
       Reading(120, [ aqi |-> 1300, pm25 |-> 240 ]),
       Reading(180, [ aqi |-> 1400, pm25 |-> 260 ]),
       Reading(240, [ aqi |-> 1600, pm25 |-> 300 ]) >>

HistoryInputs == { << >>, CalmHistory, RisingHistory }

(***************************************************************************)
(* ai/aqi.py, sensors/live_aqi.py: AQI of a particulate concentration.     *)
(* Concentrations handed to aqi_from_pm are in hundredths of ug/m3, a band *)
(* is << c_low, c_high, i_low, i_high >>, the index returned is in tenths, *)
(* rounded down.                                                           *)
(***************************************************************************)
PM25_BREAKPOINTS ==
    << << 0, 1200, 0, 50 >>, << 1210, 3540, 51, 100 >>, << 3550, 5540, 101, 150 >>,
       << 5550, 15040, 151, 200 >>, << 15050, 25040, 201, 300 >>,
       << 25050, 50040, 301, 500 >> >>

PM10_BREAKPOINTS ==
    << << 0, 5400, 0, 50 >>, << 5500, 15400, 51, 100 >>, << 15500, 25400, 101, 150 >>,
       << 25500, 35400, 151, 200 >>, << 35500, 42400, 201, 300 >>,
       << 42500, 60400, 301, 500 >> >>

INDOOR_PM25_BREAKPOINTS ==
    << << 0, 2400, 0, 50 >>, << 2410, 7080, 51, 100 >>, << 7090, 11080, 101, 150 >>,
       << 11090, 30080, 151, 200 >>, << 30090, 50080, 201, 300 >>,
       << 50090, 100080, 301, 500 >> >>

INDOOR_PM10_BREAKPOINTS ==
    << << 0, 2400, 0, 50 >>, << 2410, 7080, 51, 100 >>, << 7090, 11080, 101, 150 >>,
       << 11090, 30080, 151, 200 >>, << 30090, 50080, 201, 300 >>,
       << 50090, 100080, 301, 500 >> >>

\* 500.0, the index above the last band and the upper clamp of a forecast
AqiMax == 5000
\* PM10 is taken as PM2.5 * 1.2
Pm10FactorNum == 12
Pm10FactorDen == 10
\* live_aqi.INDOOR_PM_CALIBRATION = 0.5
LiveCalibrationNum == 5
LiveCalibrationDen == 10
\* prediction.INDOOR_PM_CALIBRATION: ai/aqi.py has no such name, so 1.0
ForecastCalibrationNum == 10
ForecastCalibrationDen == 10

\* the loop of _aqi_from_pm from band i on; value is a number
RECURSIVE BandScan(_, _, _)
BandScan(value, breakpoints, i) ==
    IF i > Len(breakpoints) THEN AqiMax
    ELSE LET c_low == breakpoints[i][1]
             c_high == breakpoints[i][2]
             i_low == breakpoints[i][3]
             i_high == breakpoints[i][4]
         IN  IF c_low <= value /\ value <= c_high
             THEN i_low * 10 + ((i_high - i_low) * 10 * (value - c_low)) \div (c_high - c_low)
             ELSE BandScan(value, breakpoints, i + 1)

\* _aqi_from_pm(value, breakpoints); value is optional
aqi_from_pm(value, breakpoints) ==
    IF value = None THEN 0 ELSE BandScan(Val(value), breakpoints, 1)

\* compute_live_metrics, the particulate part: pm2_5_raw is the DSM501A
\* concentration in tenths of ug/m3 (the sensor read always yields a number)
compute_live_metrics(ts_now, pm2_5_raw) ==
    LET pm2_5 == (pm2_5_raw * 10 * LiveCalibrationNum) \div LiveCalibrationDen
        pm10 == (pm2_5 * Pm10FactorNum) \div Pm10FactorDen
        pm25_aqi == aqi_from_pm(Some(pm2_5), INDOOR_PM25_BREAKPOINTS)
        pm10_aqi == aqi_from_pm(Some(pm10), INDOOR_PM10_BREAKPOINTS)
    IN  [ ts |-> ts_now, pm2_5_ug_m3 |-> pm2_5, aqi |-> Max2(pm25_aqi, pm10_aqi) ]

(***************************************************************************)
(* resources/read.py and ai/prediction.py: the AQI forecast.               *)
(***************************************************************************)
\* the horizon when the settings give none, minutes
DefaultHorizonMinutes == 60
\* _history_points looks back at least this many seconds
MinLookbackSeconds == 600
\* LIMIT of the history read
HistoryMaxRows == 2000
\* step_seconds of _linear_forecast
StepSeconds == 60
\* fewer usable points than this is not enough history
MinHistoryPoints == 3
\* slope and intercept of the fit are carried in 1/FitScale of a tenth
FitScale == 100
\* the largest integer whose square fits in 32 bits
SqrtCeiling == 46340

\* _fetch_rows: WHERE ts >= now - min_seconds_back ORDER BY ts ASC LIMIT max_rows.
\* The table is kept in insertion order, which is ts order: every insert
\* stamps the row with the clock, and the clock never goes back.
fetch_rows(table, now, min_seconds_back, max_rows) ==
    LET cutoff == now - min_seconds_back
        rows == SelectSeq(table, LAMBDA r : r.ts >= cutoff)
    IN  SubSeq(rows, 1, Min2(Len(rows), max_rows))

recent_dsm501a(table, now, min_seconds_back, max_rows) ==
    fetch_rows(table, now, min_seconds_back, max_rows)

\* _history_points(max_minutes)
history_points(table, now, max_minutes) ==
    LET lookback_seconds == Max2(MinLookbackSeconds, max_minutes * SecondsPerMinute * 2)
        rows == recent_dsm501a(table, now, lookback_seconds, HistoryMaxRows)
        usable == SelectSeq(rows, LAMBDA r : r.concentration_ug_m3 # None)
        point(r) ==
            LET pm2_5 == (Val(r.concentration_ug_m3) * 10 * ForecastCalibrationNum)
                            \div ForecastCalibrationDen
                pm10 == (pm2_5 * Pm10FactorNum) \div Pm10FactorDen
            IN  [ ts |-> r.ts,
                  aqi |-> Max2(aqi_from_pm(Some(pm2_5), PM25_BREAKPOINTS),
                               aqi_from_pm(Some(pm10), PM10_BREAKPOINTS)) ]
    IN  [ i \in 1..Len(usable) |-> point(usable[i]) ]

\* math.sqrt, rounded down: the root of v lies in lo..hi
RECURSIVE SqrtIn(_, _, _)
SqrtIn(v, lo, hi) ==
    IF lo >= hi THEN lo
    ELSE LET mid == (lo + hi + 1) \div 2
         IN  IF mid * mid <= v THEN SqrtIn(v, mid, hi) ELSE SqrtIn(v, lo, mid - 1)

Sqrt(v) == SqrtIn(v, 0, SqrtCeiling)

Abs(x) == IF x < 0 THEN 0 - x ELSE x

\* the empty answer of _linear_forecast: [], 0.0, 0.0, 0.0
NoFit == [ forecast |-> << >>, mae |-> 0, rmse |-> 0, margin |-> 0 ]

\* the clamp left out
clamp_aqi_none(y) == y

\* line 155: y = max(0.0, min(500.0, y))
clamp_aqi(y) == Max2(0, Min2(AqiMax, y))

\* one step too many, as range(0, steps + 1) would give
forecast_steps_one_more(horizon_minutes, step_seconds) ==
    Max2(1, (horizon_minutes * SecondsPerMinute) \div step_seconds) + 1

\* line 147: steps = max(1, int(horizon_minutes * 60 / step_seconds))
forecast_steps(horizon_minutes, step_seconds) ==
    Max2(1, (horizon_minutes * SecondsPerMinute) \div step_seconds)

\* the points counted from 0, so that the first sits on the last reading
forecast_ts_from_zero(last_ts, i, step_seconds) == last_ts + (i - 1) * step_seconds

\* line 151: ts = last_ts + i * step_seconds, i = 1 .. steps
forecast_ts(last_ts, i, step_seconds) == last_ts + i * step_seconds

\* _linear_forecast(history, horizon_minutes, step_seconds)
linear_forecast(history, horizon_minutes, step_seconds) ==
    LET n == Len(history)
        t0 == history[1].ts
        xs0 == [ i \in 1..n |-> history[i].ts - t0 ]
        ys == [ i \in 1..n |-> history[i].aqi ]
        sum_x == SumSeq(xs0)
        sum_y == SumSeq(ys)
        sum_xx == SumSeq([ i \in 1..n |-> xs0[i] * xs0[i] ])
        sum_xy == SumSeq([ i \in 1..n |-> xs0[i] * ys[i] ])
        denom == n * sum_xx - sum_x * sum_x
        a == ((n * sum_xy - sum_x * sum_y) * FitScale) \div denom
        b == (sum_y * FitScale - a * sum_x) \div n
        residuals == [ i \in 1..n |-> (ys[i] * FitScale - (a * xs0[i] + b)) \div FitScale ]
        mean_sq == SumSeq([ i \in 1..n |-> residuals[i] * residuals[i] ]) \div n
        mae == SumSeq([ i \in 1..n |-> Abs(residuals[i]) ]) \div n
        rmse == Sqrt(mean_sq)
        margin == Sqrt(mean_sq \div n)
        last_ts == history[n].ts
        steps == forecast_steps(horizon_minutes, step_seconds)
        at(i) ==
            LET ts == forecast_ts(last_ts, i, step_seconds)
                y == (a * (ts - t0) + b) \div FitScale
            IN  [ ts |-> ts, aqi |-> clamp_aqi(y), error |-> margin ]
    IN  IF n < MinHistoryPoints THEN NoFit
        ELSE IF denom = 0 THEN NoFit
        ELSE [ forecast |-> [ i \in 1..steps |-> at(i) ],
               mae |-> mae, rmse |-> rmse, margin |-> margin ]

\* lines 181-189: the horizon; settings_fault: get_latest_settings raised
horizon_minutes_from_settings(rows, settings_fault) ==
    LET settings == get_latest_settings(rows)
        value == ForecastDurationOf(settings)
    IN  IF ~ settings_fault /\ IsSome(value) /\ Val(value) # 0
        THEN Val(value)
        ELSE DefaultHorizonMinutes

\* two points taken as enough
not_enough_history_below_two(history_count) == history_count < MinHistoryPoints - 1

\* line 194: if history_count < 3
not_enough_history(history_count) == history_count < MinHistoryPoints

\* lines 192-215: the body of the second try, with the history read answering
forecast_body(table, now, horizon_minutes) ==
    LET history == history_points(table, now, horizon_minutes)
        history_count == Len(history)
        fit == linear_forecast(history, horizon_minutes, StepSeconds)
    IN  IF not_enough_history(history_count)
        THEN [ ok |-> FALSE, reason |-> "not_enough_history",
               history_count |-> history_count, forecast |-> << >> ]
        ELSE [ ok |-> TRUE, horizon_minutes |-> horizon_minutes,
               history_count |-> history_count, forecast_count |-> Len(fit.forecast),
               mae |-> fit.mae, rmse |-> fit.rmse, margin_error |-> fit.margin,
               margin_method |-> "rmse_over_sqrt_n", forecast |-> fit.forecast ]

\* compute_aqi_forecast without its second except clause
compute_aqi_forecast_unguarded(rows, table, now, settings_fault, history_fault) ==
    IF history_fault
    THEN [ raised |-> "OperationalError" ]
    ELSE forecast_body(table, now, horizon_minutes_from_settings(rows, settings_fault))

\* compute_aqi_forecast; history_fault: the read of dsm501a_readings raised
compute_aqi_forecast(rows, table, now, settings_fault, history_fault) ==
    IF history_fault
    THEN [ ok |-> FALSE, error |-> "OperationalError", forecast |-> << >> ]
    ELSE forecast_body(table, now, horizon_minutes_from_settings(rows, settings_fault))

\* the concentrations the DSM501A reports, tenths of ug/m3
DsmInputs == { 6, 3000 }


(***************************************************************************)
(* State.                                                                  *)
(***************************************************************************)
VARIABLES
    clock,              \* dt.datetime.utcnow(), seconds
    user_settings,      \* settings.db: table user_settings, oldest row first
    email_alert_state,  \* settings.db: last_sent_at of the row id = 1; None: no row
    email_alert_logs,   \* alerts.db: table email_alert_logs
    cycle,              \* per thread: the frame of handle_new_reading_for_dashboard
    cycles_started,     \* calls of handle_new_reading_for_dashboard so far
    attempts,           \* the calls that invoked send_email, oldest first
    dsm501a_readings,   \* sensor.db: table dsm501a_readings, oldest row first
    dashboard_readings, \* sensor.db: table dashboard_readings, oldest row first
    forecast_result,    \* what compute_aqi_forecast handed to api_aqi_forecast
    call                \* a call of a helper of spike.py: its arguments and its result

vars == << clock, user_settings, email_alert_state, email_alert_logs, cycle,
           cycles_started, attempts, dsm501a_readings, dashboard_readings,
           forecast_result, call >>

\* what the handlers of index.py keep
app == << dsm501a_readings, dashboard_readings, forecast_result >>

stores == << user_settings, email_alert_state, email_alert_logs >>

\* how often a save changed forecast_duration along the settings log
RECURSIVE FdEpoch(_)
FdEpoch(rows) ==
    IF rows = << >> THEN 0
    ELSE LET before == SubSeq(rows, 1, Len(rows) - 1)
         IN  FdEpoch(before) +
             ( IF rows[Len(rows)].forecast_duration
                     = ForecastDurationOf(get_latest_settings(before))
               THEN 0 ELSE 1 )

\* A frame holds the locals of one call:
\*   id          the number of the call
\*   settings    what get_latest_settings returned to send_spike_alert_if_enabled
\*   result      "True" | "False": the value returned; "raised": an exception
\*               left the function
\*   send_calls  calls of send_email;  log_rows  rows added to email_alert_logs
\*   wrote       the last_sent_at the call stored, if it stored one
\*   epoch, rows_first, rows_last  the settings log as the call's reads saw it
\*   evaluated   the steps the call has run, in order: "history" (if not
\*               history), "cooldown" (the cooldown guard), "baseline"
\*               (_compute_baseline), "spiking" (detect_spiking_sensors and
\*               `if not spiking`), "alerts" (the guards on recipient and
\*               notifications), "message" (build_alert_message)
IdleFrame ==
    [ pc |-> "idle", id |-> 0, history |-> << >>, cooldown_minutes |-> 0, now |-> 0,
      last_sent |-> None, settings |-> None, sent |-> FALSE, row_seen |-> FALSE,
      result |-> "none", send_calls |-> 0, log_rows |-> 0, wrote |-> None,
      epoch |-> 0, rows_first |-> 0, rows_last |-> 0, evaluated |-> << >> ]

Active(p) == cycle[p].pc \notin { "idle", "done" }

Init ==
    /\ clock = 0
    /\ user_settings = << >>
    /\ email_alert_state = None
    /\ email_alert_logs = << >>
    /\ cycle = [ p \in Procs |-> IdleFrame ]
    /\ cycles_started = 0
    /\ attempts = << >>
    /\ dsm501a_readings = << >>
    /\ dashboard_readings = << >>
    /\ forecast_result = None
    /\ call = None

\* the wall clock advances
Tick ==
    /\ \E d \in ClockSteps : clock + d <= MaxClock /\ clock' = clock + d
    /\ UNCHANGED << call, app, stores, cycle, cycles_started, attempts >>

\* save_settings: INSERT one row
save_settings ==
    /\ Len(user_settings) < MaxSettingsRows
    /\ \E row \in SettingsInputs : user_settings' = Append(user_settings, row)
    /\ UNCHANGED << call, clock, app, email_alert_state, email_alert_logs, cycle, cycles_started,
                    attempts >>

(***************************************************************************)
(* resources/spike.py: handle_new_reading_for_dashboard, one action per    *)
(* store access.                                                           *)
(***************************************************************************)
\* the call of thread p returns: frame f, outcome res.  The frame stays, at
\* pc = "done", until Exit discards it.
Return(p, f, res) ==
    LET g == [ f EXCEPT !.pc = "done", !.result = res ]
    IN  /\ cycle' = [ cycle EXCEPT ![p] = g ]
        /\ attempts' =
              IF g.send_calls > 0
              THEN Append(attempts, [ k \in DOMAIN g \ { "pc" } |-> g[k] ])
              ELSE attempts

\* the call continues at `label` with frame f
Goto(p, f, label) ==
    /\ cycle' = [ cycle EXCEPT ![p] = [ f EXCEPT !.pc = label ] ]
    /\ UNCHANGED attempts

\* the caller has the result; the frame is gone
Exit(p) ==
    /\ cycle[p].pc = "done"
    /\ cycle' = [ cycle EXCEPT ![p] = IdleFrame ]
    /\ UNCHANGED << call, clock, app, stores, cycles_started, attempts >>

\* the frame of a new call with `history`, after lines 326-327 read `settings`
\* (what get_latest_settings returned, None also when it raised) and the clock
NewFrame(history, settings) ==
    [ IdleFrame EXCEPT
        !.id = cycles_started + 1,
        !.history = history,
        !.cooldown_minutes = cooldown_minutes_from_settings(settings),
        !.now = clock,
        !.epoch = FdEpoch(user_settings),
        !.rows_first = Len(user_settings),
        !.rows_last = Len(user_settings),
        !.evaluated = << "history" >> ]

\* a request is served by the first thread that is free
FirstIdle(p) ==
    /\ cycle[p].pc = "idle"
    /\ \A q \in Procs : q < p => cycle[q].pc # "idle"

\* lines 323-327: the call, the guard `if not history`,
\* _get_cooldown_minutes_from_settings and utcnow()
HandleNewReading(p) ==
    /\ FirstIdle(p)
    /\ cycles_started < MaxCycles
    /\ cycles_started' = cycles_started + 1
    /\ \E history \in HistoryInputs :
          IF history = << >>
          THEN Return(p, [ IdleFrame EXCEPT !.id = cycles_started + 1,
                                            !.evaluated = << "history" >> ], "False")
          ELSE Goto(p, NewFrame(history, get_latest_settings(user_settings)), "get_last")
    /\ UNCHANGED << call, clock, app, stores >>

\* lines 282-285: as HandleNewReading, get_latest_settings raises, `settings = {}`
HandleNewReadingSettingsFault(p) ==
    /\ FirstIdle(p)
    /\ cycles_started < MaxCycles
    /\ cycles_started' = cycles_started + 1
    /\ \E history \in HistoryInputs \ { << >> } :
          Goto(p, NewFrame(history, None), "get_last")
    /\ UNCHANGED << call, clock, app, stores >>

\* the spike set of lines 336-344
SpikingOf(history) ==
    detect_spiking_sensors(history[Len(history)].values, compute_baseline(history),
                           DEFAULT_ABSOLUTE_THRESHOLDS)

\* the read and the guard under a lock held from the read to the write
GetLastAlertTimeLocked(p) ==
    /\ cycle[p].pc = "get_last"
    /\ \A q \in Procs \ { p } :
          cycle[q].pc \notin { "dispatch", "send", "set_select", "set_write" }
    /\ LET f == [ cycle[p] EXCEPT !.last_sent = email_alert_state,
                                  !.evaluated = Append(@, "cooldown") ]
           g == [ f EXCEPT !.evaluated = @ \o << "baseline", "spiking" >> ]
       IN  IF ~ CooldownElapsed(f.now, f.last_sent, f.cooldown_minutes)
           THEN Return(p, f, "False")
           ELSE IF SpikingOf(f.history) = << >>
           THEN Return(p, g, "False")
           ELSE Goto(p, g, "dispatch")
    /\ UNCHANGED << call, clock, app, stores, cycles_started >>

\* the baseline and the spike set computed before the cooldown guard
GetLastAlertTimeSpikingFirst(p) ==
    /\ cycle[p].pc = "get_last"
    /\ LET f == [ cycle[p] EXCEPT !.last_sent = email_alert_state,
                                  !.evaluated = @ \o << "baseline", "spiking", "cooldown" >> ]
       IN  IF SpikingOf(f.history) = << >>
           THEN Return(p, f, "False")
           ELSE IF ~ CooldownElapsed(f.now, f.last_sent, f.cooldown_minutes)
           THEN Return(p, f, "False")
           ELSE Goto(p, f, "dispatch")
    /\ UNCHANGED << call, clock, app, stores, cycles_started >>

\* lines 328-347: _get_last_alert_time, the cooldown guard, _compute_baseline,
\* detect_spiking_sensors and the guard `if not spiking`
GetLastAlertTime(p) ==
    /\ cycle[p].pc = "get_last"
    /\ LET f == [ cycle[p] EXCEPT !.last_sent = email_alert_state,
                                  !.evaluated = Append(@, "cooldown") ]
           g == [ f EXCEPT !.evaluated = @ \o << "baseline", "spiking" >> ]
       IN  IF ~ CooldownElapsed(f.now, f.last_sent, f.cooldown_minutes)
           THEN Return(p, f, "False")
           ELSE IF SpikingOf(f.history) = << >>
           THEN Return(p, g, "False")
           ELSE Goto(p, g, "dispatch")
    /\ UNCHANGED << call, clock, app, stores, cycles_started >>

\* lines 241-247: the alert-state read raises (sqlite3.Error), nothing catches it
GetLastAlertTimeFault(p) ==
    /\ cycle[p].pc = "get_last"
    /\ Return(p, cycle[p], "raised")
    /\ UNCHANGED << call, clock, app, stores, cycles_started >>

(***************************************************************************)
(* resources/email.py: send_spike_alert_if_enabled.                        *)
(***************************************************************************)
\* the guards of lines 157-166 without the test of the notifications flag
AlertsDisabledNoFlag(settings) ==
    \/ ~ IsSome(settings)
    \/ Val(settings).email \in { None, Some("") }

\* lines 157-166: `not recipient` or `not notifications_enabled`
AlertsDisabled(settings) ==
    \/ ~ IsSome(settings)
    \/ Val(settings).email \in { None, Some("") }
    \/ ~ Val(settings).notifications

\* lines 143-166: the settings read and the guards on it
SendSpikeAlertIfEnabled(p) ==
    /\ cycle[p].pc = "dispatch"
    /\ LET f == [ cycle[p] EXCEPT !.settings = get_latest_settings(user_settings),
                                  !.rows_last = Len(user_settings),
                                  !.evaluated = Append(@, "alerts") ]
       IN  IF AlertsDisabled(f.settings)
           THEN Return(p, f, "False")
           ELSE Goto(p, f, "send")
    /\ UNCHANGED << call, clock, app, stores, cycles_started >>

\* line 143: get_latest_settings raises outside the try
SendSpikeAlertSettingsFault(p) ==
    /\ cycle[p].pc = "dispatch"
    /\ Return(p, cycle[p], "raised")
    /\ UNCHANGED << call, clock, app, stores, cycles_started >>

\* lines 168-189: build_alert_message, send_email delivers, log_email_alert
SendEmailDelivered(p) ==
    /\ cycle[p].pc = "send"
    /\ email_alert_logs' =
          Append(email_alert_logs, [ recipient |-> Val(Val(cycle[p].settings).email) ])
    /\ Goto(p, [ cycle[p] EXCEPT !.send_calls = @ + 1, !.log_rows = @ + 1,
                                 !.sent = TRUE, !.evaluated = Append(@, "message") ],
            "set_select")
    /\ UNCHANGED << call, clock, app, user_settings, email_alert_state, cycles_started >>

\* lines 184-189: send_email delivers, log_email_alert raises and is caught
SendEmailDeliveredLogFault(p) ==
    /\ cycle[p].pc = "send"
    /\ Goto(p, [ cycle[p] EXCEPT !.send_calls = @ + 1, !.sent = TRUE,
                                 !.evaluated = Append(@, "message") ], "set_select")
    /\ UNCHANGED << call, clock, app, stores, cycles_started >>

\* send_email raises and the cooldown is stamped all the same
SendEmailFailsStamped(p) ==
    /\ cycle[p].pc = "send"
    /\ email_alert_state' = Some(cycle[p].now)
    /\ Return(p, [ cycle[p] EXCEPT !.send_calls = @ + 1,
                                   !.evaluated = Append(@, "message") ], "False")
    /\ UNCHANGED << call, clock, app, user_settings, email_alert_logs, cycles_started >>

\* lines 176, 191-193 and spike.py 361-364: send_email raises, sent = False
SendEmailFails(p) ==
    /\ cycle[p].pc = "send"
    /\ Return(p, [ cycle[p] EXCEPT !.send_calls = @ + 1,
                                   !.evaluated = Append(@, "message") ], "False")
    /\ UNCHANGED << call, clock, app, stores, cycles_started >>

(***************************************************************************)
(* resources/spike.py: _set_last_alert_time.  The SELECT runs outside any  *)
(* transaction, so another connection may write between it and the         *)
(* INSERT or UPDATE it chooses.                                            *)
(***************************************************************************)
\* lines 257-263: SELECT 1 FROM email_alert_state WHERE id = 1
SetLastAlertTimeSelect(p) ==
    /\ cycle[p].pc = "set_select"
    /\ Goto(p, [ cycle[p] EXCEPT !.row_seen = IsSome(email_alert_state) ], "set_write")
    /\ UNCHANGED << call, clock, app, stores, cycles_started >>

\* the write without its commit: the call returns True, the store keeps its row
SetLastAlertTimeWriteLost(p) ==
    /\ cycle[p].pc = "set_write"
    /\ Return(p, [ cycle[p] EXCEPT !.wrote = Some(cycle[p].now) ], "True")
    /\ UNCHANGED << call, clock, app, stores, cycles_started >>

\* the write on a table without PRIMARY KEY CHECK (id = 1): the INSERT of a
\* call that saw no row goes through although a row is there
SetLastAlertTimeWriteUnkeyed(p) ==
    /\ cycle[p].pc = "set_write"
    /\ email_alert_state' = Some(cycle[p].now)
    /\ Return(p, [ cycle[p] EXCEPT !.wrote = Some(cycle[p].now) ], "True")
    /\ UNCHANGED << call, clock, app, user_settings, email_alert_logs, cycles_started >>

\* lines 263-273 and 361-364: UPDATE when a row was seen, else INSERT; an
\* INSERT that finds the row id = 1 present raises sqlite3.IntegrityError
SetLastAlertTimeWrite(p) ==
    /\ cycle[p].pc = "set_write"
    /\ IF cycle[p].row_seen \/ email_alert_state = None
       THEN /\ email_alert_state' = Some(cycle[p].now)
            /\ Return(p, [ cycle[p] EXCEPT !.wrote = Some(cycle[p].now) ], "True")
       ELSE /\ UNCHANGED email_alert_state
            /\ Return(p, cycle[p], "raised")
    /\ UNCHANGED << call, clock, app, user_settings, email_alert_logs, cycles_started >>

\* lines 257-273: the alert-state store fails (SELECT, UPDATE, INSERT or commit)
SetLastAlertTimeFault(p) ==
    /\ cycle[p].pc \in { "set_select", "set_write" }
    /\ Return(p, cycle[p], "raised")
    /\ UNCHANGED << call, clock, app, stores, cycles_started >>

(***************************************************************************)
(* Specifications.                                                         *)
(***************************************************************************)
\* a step of a call in progress
Continue(p) ==
    \/ GetLastAlertTime(p)
    \/ SendSpikeAlertIfEnabled(p)
    \/ SendEmailDelivered(p)
    \/ SendEmailFails(p)
    \/ SetLastAlertTimeSelect(p)
    \/ SetLastAlertTimeWrite(p)

\* no call is in progress
Quiet == \A q \in Procs : ~ Active(q)

\* no result waits to be taken: Exit comes first, it changes nothing the
\* program sees
Taken == \A q \in Procs : cycle[q].pc # "done"

\* Requests overlap: a thread may enter while another is inside.  The stores
\* answer every access; the email transport may fail.
Next ==
    \/ Taken /\ Tick
    \/ Taken /\ save_settings
    \/ \E p \in Procs : Taken /\ HandleNewReading(p)
    \/ \E p \in Procs : Taken /\ Continue(p)
    \/ \E p \in Procs : Exit(p)

Spec == Init /\ [][Next]_vars

\* Requests one after another: a call begins only when none is in progress.
NextSeq ==
    \/ Taken /\ Tick
    \/ Taken /\ save_settings
    \/ \E p \in Procs : Taken /\ Quiet /\ HandleNewReading(p)
    \/ \E p \in Procs : Taken /\ Continue(p)
    \/ \E p \in Procs : Exit(p)

SpecSeq == Init /\ [][NextSeq]_vars

\* Requests one after another, and any access of settings.db or alerts.db may raise.
NextFault ==
    \/ NextSeq
    \/ \E p \in Procs : Taken /\ Quiet /\ HandleNewReadingSettingsFault(p)
    \/ \E p \in Procs : Taken /\ GetLastAlertTimeFault(p)
    \/ \E p \in Procs : Taken /\ SendSpikeAlertSettingsFault(p)
    \/ \E p \in Procs : Taken /\ SendEmailDeliveredLogFault(p)
    \/ \E p \in Procs : Taken /\ SetLastAlertTimeFault(p)

SpecFault == Init /\ [][NextFault]_vars

(***************************************************************************)
(* index.py: the request handlers.                                         *)
(***************************************************************************)
orchestration == << email_alert_state, email_alert_logs, cycle, cycles_started, attempts >>

DsmRow(ts, concentration) == [ ts |-> ts, concentration_ug_m3 |-> concentration ]

\* GET /api/dsm501a: one sensor read, one row
api_dsm501a ==
    /\ Len(dsm501a_readings) < MaxDsmRows
    /\ \E c \in DsmInputs :
          dsm501a_readings' = Append(dsm501a_readings, DsmRow(clock, Some(c)))
    /\ UNCHANGED << call, clock, user_settings, orchestration, dashboard_readings,
                    forecast_result >>

\* GET /api/dashboard: the live metrics from one sensor read, the settings
\* read for refresh_rate, a second sensor read logged as a raw row, and the
\* snapshot logged to dashboard_readings.  Nothing else is called.
api_dashboard ==
    /\ Len(dashboard_readings) < MaxDashboardRows
    /\ Len(dsm501a_readings) < MaxDsmRows
    /\ \E c1 \in DsmInputs, c2 \in DsmInputs :
          LET metrics == compute_live_metrics(clock, c1)
          IN  /\ dsm501a_readings' = Append(dsm501a_readings, DsmRow(clock, Some(c2)))
              /\ dashboard_readings' = Append(dashboard_readings, metrics)
    /\ UNCHANGED << call, clock, user_settings, orchestration, forecast_result >>

\* a forecast that also stamps last_sent_at
api_aqi_forecast_stamping ==
    /\ forecast_result = None
    /\ \E settings_fault \in BOOLEAN, history_fault \in BOOLEAN :
          forecast_result' =
              Some(compute_aqi_forecast(user_settings, dsm501a_readings, clock,
                                        settings_fault, history_fault))
    /\ email_alert_state' = Some(clock)
    /\ UNCHANGED << call, clock, user_settings, email_alert_logs, cycle, cycles_started,
                    attempts, dsm501a_readings, dashboard_readings >>

\* GET /api/aqi/forecast up to the return of compute_aqi_forecast; either
\* store read may raise
api_aqi_forecast ==
    /\ forecast_result = None
    /\ \E settings_fault \in BOOLEAN, history_fault \in BOOLEAN :
          forecast_result' =
              Some(compute_aqi_forecast(user_settings, dsm501a_readings, clock,
                                        settings_fault, history_fault))
    /\ UNCHANGED << call, clock, user_settings, orchestration, dsm501a_readings,
                    dashboard_readings >>

\* jsonify(result): the response leaves
api_aqi_forecast_return ==
    /\ forecast_result # None
    /\ forecast_result' = None
    /\ UNCHANGED << call, clock, user_settings, orchestration, dsm501a_readings,
                    dashboard_readings >>

\* no forecast waits to be sent
Answered == forecast_result = None

\* The forecast and what feeds it: requests one after another, rows logged
\* through /api/dsm501a (a refresh of the dashboard logs rows of the same
\* form), and a store read of the forecast may raise.
NextForecast ==
    \/ Answered /\ Tick
    \/ Answered /\ save_settings
    \/ Answered /\ api_dsm501a
    \/ api_aqi_forecast
    \/ api_aqi_forecast_return

SpecForecast == Init /\ [][NextForecast]_vars

\* The application as index.py routes it.
NextApp ==
    \/ NextForecast
    \/ Answered /\ api_dashboard

SpecApp == Init /\ [][NextApp]_vars

\* What an earlier run may have left in sensor.db and settings.db: rows of
\* dsm501a_readings in ts order (concentration_ug_m3 is a nullable column)
\* and at most one settings row (forecast_duration is any integer or NULL).
StoredTs == { t \in 0..MaxClock : \E d \in ClockSteps : t % d = 0 }
StoredConcentrations == { None } \cup { Some(c) : c \in DsmInputs \cup { 400 } }
StoredRows == { DsmRow(ts, c) : ts \in StoredTs, c \in StoredConcentrations }
StoredTables ==
    UNION { { t \in [ 1..n -> StoredRows ] : \A i \in 1..(n - 1) : t[i].ts <= t[i + 1].ts }
            : n \in 0..MaxDsmRows }
StoredSettings ==
    { << >> } \cup
    { << SettingsRow(Some("user@example.com"), TRUE, fd) >>
        : fd \in { None, Some(0), Some(2), Some(0 - 1) } }

\* the application starts on stored tables
InitStored ==
    /\ clock = MaxClock
    /\ user_settings \in StoredSettings
    /\ email_alert_state = None
    /\ email_alert_logs = << >>
    /\ cycle = [ p \in Procs |-> IdleFrame ]
    /\ cycles_started = 0
    /\ attempts = << >>
    /\ dsm501a_readings \in StoredTables
    /\ dashboard_readings = << >>
    /\ forecast_result = None
    /\ call = None

\* forecasts asked of the stored tables; either store read may raise
NextStored ==
    \/ api_aqi_forecast
    \/ api_aqi_forecast_return

SpecStored == InitStored /\ [][NextStored]_vars

(***************************************************************************)
(* Calls of the helpers of resources/spike.py on their own.  A call holds  *)
(* the arguments it was made with and the value it returned.               *)
(***************************************************************************)
\* current values: each sensor just below and at its default threshold, and
\* readings of one and of several sensors
CurrentInputs ==
    { Values([ k \in { key } |-> DEFAULT_ABSOLUTE_THRESHOLDS[key] - d ])
        : key \in SensorKeySet, d \in { 0, 1 } }
    \cup { NoValues,
           Values([ pm25 |-> 400 ]),
           Values([ temp |-> 290 ]),
           Values([ temp |-> 58 ]),
           Values([ temp |-> 279 ]),
           Values([ aqi |-> 1600, pm25 |-> 80, temp |-> 290, voc |-> 3500 ]) }

\* baselines as _compute_baseline returns them: None, or a mean sum / n for
\* the sensors that had prior values
BaselineInputs ==
    { None,
      Some([ k \in SensorKeySet |->
               [ sum |-> DEFAULT_ABSOLUTE_THRESHOLDS[k] \div 2, n |-> 1 ] ]),
      Some([ k \in { "temp" } |-> [ sum |-> 200, n |-> 1 ] ]),
      Some([ k \in { "temp" } |-> [ sum |-> 401, n |-> 2 ] ]),
      Some([ k \in { "temp" } |-> [ sum |-> 40, n |-> 1 ] ]),
      Some([ k \in { "temp" } |-> [ sum |-> 0, n |-> 1 ] ]) }

\* the absolute_thresholds argument: None, or an override of some keys
ThresholdInputs == { None, Some([ k \in { "pm25" } |-> 500 ]) }

call_detect_spiking_sensors ==
    /\ call = None
    /\ \E current_values \in CurrentInputs, baseline_values \in BaselineInputs,
          absolute_thresholds \in ThresholdInputs :
          LET thresholds == thresholds_with(absolute_thresholds)
          IN  call' = Some([ fn |-> "detect_spiking_sensors",
                             current_values |-> current_values,
                             baseline_values |-> baseline_values,
                             thresholds |-> thresholds,
                             result |-> detect_spiking_sensors(current_values,
                                                               baseline_values,
                                                               thresholds) ])
    /\ UNCHANGED << clock, app, stores, cycle, cycles_started, attempts >>

\* the instants, in seconds, of now and of the stored last_sent_at
NowInputs == { 0, 300, 1799, 1800, 1860 }
LastSentInputs == { None, Some(0), Some(60), Some(1800) }
CooldownInputs == { 1, 2, 30 }

\* the cooldown guard of handle_new_reading_for_dashboard
call_cooldown_guard ==
    /\ call = None
    /\ \E now \in NowInputs, last_sent \in LastSentInputs,
          cooldown_minutes \in CooldownInputs :
          call' = Some([ fn |-> "cooldown_guard", now |-> now, last_sent |-> last_sent,
                         cooldown_minutes |-> cooldown_minutes,
                         result |-> CooldownElapsed(now, last_sent, cooldown_minutes) ])
    /\ UNCHANGED << clock, app, stores, cycle, cycles_started, attempts >>

\* the forecast_duration of the latest settings row
ForecastDurationInputs ==
    { None, Some(0 - 5), Some(0), Some(1), Some(2), Some(45), StoredText("abc") }

SettingsTables ==
    { << >> } \cup
    { << SettingsRow(Some("user@example.com"), TRUE, fd) >> : fd \in ForecastDurationInputs }
    \cup
    { << SettingsRow(Some("user@example.com"), TRUE, Some(45)),
         SettingsRow(Some("user@example.com"), FALSE, fd) >> : fd \in ForecastDurationInputs }

\* _get_cooldown_minutes_from_settings; the settings read may raise
call_get_cooldown_minutes_from_settings ==
    /\ call = None
    /\ \E rows \in SettingsTables, settings_fault \in BOOLEAN :
          LET settings == IF settings_fault THEN None ELSE get_latest_settings(rows)
          IN  call' = Some([ fn |-> "_get_cooldown_minutes_from_settings",
                             rows |-> rows, settings_fault |-> settings_fault,
                             result |-> cooldown_minutes_from_settings(settings) ])
    /\ UNCHANGED << clock, app, stores, cycle, cycles_started, attempts >>

\* the readings a history is made of, and the histories of up to
\* MaxBaselineHistory readings
ReadingInputs ==
    { [ timestamp |-> 0, values |-> NoValues ],
      Reading(0, [ aqi |-> 400 ]),
      Reading(0, [ aqi |-> 1000, temp |-> 200 ]),
      Reading(0, [ temp |-> 290 ]) }

BaselineHistories == UNION { [ 1..n -> ReadingInputs ] : n \in 0..MaxBaselineHistory }

call_compute_baseline ==
    /\ call = None
    /\ \E history \in BaselineHistories :
          call' = Some([ fn |-> "_compute_baseline", history |-> history,
                         result |-> compute_baseline(history) ])
    /\ UNCHANGED << clock, app, stores, cycle, cycles_started, attempts >>

\* histories with aqi values: none, one reading, rising, falling, level,
\* two readings at one instant, values after a reading without aqi
FallingHistory ==
    << Reading(0, [ aqi |-> 600 ]), Reading(60, [ aqi |-> 300 ]) >>

TrendHistories ==
    HistoryInputs \cup
    { FallingHistory,
      << Reading(0, [ aqi |-> 400 ]), Reading(60, [ aqi |-> 400 ]) >>,
      << Reading(0, [ aqi |-> 400 ]), Reading(0, [ aqi |-> 900 ]) >>,
      << Reading(0, [ temp |-> 200 ]), Reading(60, [ aqi |-> 400 ]),
         Reading(120, [ aqi |-> 450 ]) >>,
      << Reading(0, [ temp |-> 200 ]), Reading(60, [ temp |-> 210 ]) >> }

\* compute_aqi_trend(history, default_window_minutes = cooldown_minutes)
call_compute_aqi_trend ==
    /\ call = None
    /\ \E history \in TrendHistories, cooldown_minutes \in CooldownInputs :
          call' = Some([ fn |-> "compute_aqi_trend", history |-> history,
                         default_window_minutes |-> cooldown_minutes,
                         result |-> compute_aqi_trend(history, cooldown_minutes) ])
    /\ UNCHANGED << clock, app, stores, cycle, cycles_started, attempts >>

\* raw DSM501A concentrations, tenths of ug/m3
RawInputs == DsmInputs \cup { 0, 100, 400 }

\* one raw concentration through both derivations of the AQI: the live one of
\* compute_live_metrics and the one of _history_points on the stored row
call_aqi_of_raw ==
    /\ call = None
    /\ \E raw \in RawInputs :
          call' = Some([ fn |-> "aqi_of_raw", raw |-> raw,
                         live |-> compute_live_metrics(0, raw).aqi,
                         history |->
                            history_points(<< DsmRow(0, Some(raw)) >>, 0,
                                           DefaultHorizonMinutes)[1].aqi ])
    /\ UNCHANGED << clock, app, stores, cycle, cycles_started, attempts >>

\* the breakpoint tables by name
BreakpointTables ==
    [ PM25_BREAKPOINTS |-> PM25_BREAKPOINTS,
      PM10_BREAKPOINTS |-> PM10_BREAKPOINTS,
      INDOOR_PM25_BREAKPOINTS |-> INDOOR_PM25_BREAKPOINTS,
      INDOOR_PM10_BREAKPOINTS |-> INDOOR_PM10_BREAKPOINTS ]

\* concentrations, hundredths of ug/m3, at and next to the bounds of the bands
BandEdges(breakpoints) ==
    { c \in UNION { { breakpoints[i][j] + d : d \in (0 - EdgeWidth)..EdgeWidth }
                      : i \in 1..Len(breakpoints), j \in 1..2 }
        : c >= 0 }

\* _aqi_from_pm(value, breakpoints)
call_aqi_from_pm ==
    /\ call = None
    /\ \E name \in DOMAIN BreakpointTables :
          \E value \in BandEdges(BreakpointTables[name]) :
             call' = Some([ fn |-> "_aqi_from_pm", breakpoints |-> name, value |-> value,
                            result |-> aqi_from_pm(Some(value), BreakpointTables[name]) ])
    /\ UNCHANGED << clock, app, stores, cycle, cycles_started, attempts >>

\* the lookbacks, seconds, and the LIMITs of a read
LookbackInputs == { 60, MinLookbackSeconds }
MaxRowsInputs == { 2, HistoryMaxRows }

\* recent_dsm501a(min_seconds_back, max_rows) on a stored table at MaxClock
call_recent_dsm501a ==
    /\ call = None
    /\ \E table \in StoredTables, min_seconds_back \in LookbackInputs,
          max_rows \in MaxRowsInputs :
          call' = Some([ fn |-> "recent_dsm501a", table |-> table, now |-> MaxClock,
                         min_seconds_back |-> min_seconds_back, max_rows |-> max_rows,
                         result |-> recent_dsm501a(table, MaxClock, min_seconds_back,
                                                   max_rows) ])
    /\ UNCHANGED << clock, app, stores, cycle, cycles_started, attempts >>

\* the call returns
call_return ==
    /\ call # None
    /\ call' = None
    /\ UNCHANGED << clock, app, stores, cycle, cycles_started, attempts >>

NextCalls ==
    \/ call_detect_spiking_sensors
    \/ call_cooldown_guard
    \/ call_get_cooldown_minutes_from_settings
    \/ call_compute_baseline
    \/ call_compute_aqi_trend
    \/ call_aqi_of_raw
    \/ call_aqi_from_pm
    \/ call_recent_dsm501a
    \/ call_return

SpecCalls == Init /\ [][NextCalls]_vars

(***************************************************************************)
(* Properties of the alert orchestration.                                  *)
(***************************************************************************)
\* the frames of the calls that have just returned
DoneFrames == { cycle[p] : p \in { q \in Procs : cycle[q].pc = "done" } }

\* the call read a last_sent_at that is less than its cooldown old
InCooldown(f) ==
    /\ IsSome(f.last_sent)
    /\ f.now - Val(f.last_sent) < f.cooldown_minutes * SecondsPerMinute

\* the settings the dispatcher read allow an alert
AlertsEnabled(f) ==
    /\ IsSome(f.settings)
    /\ Val(f.settings).notifications
    /\ IsSome(Val(f.settings).email)
    /\ Val(Val(f.settings).email) # ""

\* attempt a of an earlier call and the call f right after it had the same
\* history and saw the same settings log throughout
SameInputs(a, f) ==
    /\ f.id = a.id + 1
    /\ f.history = a.history
    /\ a.rows_first = a.rows_last
    /\ f.rows_first = a.rows_last
    /\ f.rows_last = f.rows_first

\* C1: among cycles run one after another, two that both delivered an alert
\* while forecast_duration stayed as it was have start times at least
\* cooldown_minutes apart (and used the same cooldown_minutes).
C1_OneDispatchPerCooldownWindow ==
    \A i, j \in 1..Len(attempts) :
        (i < j /\ attempts[i].sent /\ attempts[j].sent
               /\ attempts[i].epoch = attempts[j].epoch)
        => /\ attempts[j].cooldown_minutes = attempts[i].cooldown_minutes
           /\ attempts[j].now - attempts[i].now
                 >= attempts[j].cooldown_minutes * SecondsPerMinute

\* two deliveries under one setting, exactly one cooldown apart
C1_Witness ==
    /\ Len(attempts) = 2
    /\ attempts[1].sent /\ attempts[2].sent
    /\ attempts[1].epoch = attempts[2].epoch
    /\ attempts[2].now - attempts[1].now = attempts[2].cooldown_minutes * SecondsPerMinute

\* C2: a cycle with the rising history (its last AQI crosses 150), cooldown
\* elapsed and alerts enabled calls send_email exactly once; after a delivery,
\* the next cycle, begun within the minute with the same inputs, calls
\* send_email zero times and returns False.
C2_DispatchOnceThenSuppress ==
    \A f \in DoneFrames :
        /\ (f.history = RisingHistory /\ ~ InCooldown(f) /\ AlertsEnabled(f))
              => f.send_calls = 1
        /\ \A i \in 1..Len(attempts) :
              ( /\ attempts[i].sent
                /\ SameInputs(attempts[i], f)
                /\ f.now - attempts[i].now < MinCooldownMinutes * SecondsPerMinute )
              => (f.send_calls = 0 /\ f.result = "False")

\* the second of two immediate cycles with the same inputs has returned False
C2_Witness ==
    \E f \in DoneFrames :
        /\ Len(attempts) = 1 /\ attempts[1].sent /\ attempts[1].send_calls = 1
        /\ SameInputs(attempts[1], f)
        /\ f.history = RisingHistory
        /\ f.now = attempts[1].now
        /\ f.send_calls = 0 /\ f.result = "False"

\* a guard of the cycle failed: history empty, cooldown not elapsed, spike set
\* empty (the calm history), or alerts not enabled in the settings
GuardFailed(f) ==
    \/ f.history = << >>
    \/ InCooldown(f)
    \/ f.history = CalmHistory
    \/ ~ AlertsEnabled(f)

\* C4: a cycle in which a guard fails returns False, never calls send_email,
\* adds no alert-log row and does not write last_sent_at.
C4_FailedGuardNoEffect ==
    \A f \in DoneFrames :
        GuardFailed(f)
        => /\ f.result = "False"
           /\ f.send_calls = 0
           /\ f.log_rows = 0
           /\ f.wrote = None

\* every guard seen failing: a cycle stopped by the notifications flag while
\* the other thread's cycle is in progress
C4_Witness ==
    \E f \in DoneFrames :
        /\ f.history = RisingHistory /\ ~ InCooldown(f)
        /\ IsSome(f.settings) /\ ~ Val(f.settings).notifications
        /\ f.result = "False"
        /\ \E q \in Procs : Active(q)

\* C5: a cycle writes last_sent_at if and only if the dispatcher returned true;
\* it writes its own `now`; it returns True exactly when it wrote.
C5_WritesIffSent ==
    \A f \in DoneFrames :
        /\ IsSome(f.wrote) <=> f.sent
        /\ IsSome(f.wrote) => f.wrote = Some(f.now)
        /\ (f.result = "True") <=> IsSome(f.wrote)

\* C6: when send_email raises the cycle returns False, last_sent_at is as the
\* cycle read it, and the next cycle with the same history and settings
\* passes the cooldown guard and calls send_email again.
C6_FailedSendRetried ==
    \A f \in DoneFrames :
        /\ (f.send_calls = 1 /\ ~ f.sent)
              => (f.result = "False" /\ f.wrote = None /\ email_alert_state = f.last_sent)
        /\ \A i \in 1..Len(attempts) :
              (~ attempts[i].sent /\ SameInputs(attempts[i], f))
              => f.send_calls = 1

\* a failed send followed by a cycle that tried again
C6_Witness ==
    \E f \in DoneFrames :
        /\ Len(attempts) = 2
        /\ ~ attempts[1].sent /\ attempts[1].result = "False"
        /\ SameInputs(attempts[1], f)
        /\ f.send_calls = 1 /\ f.id = 2 /\ f.now > attempts[1].now

\* C7: the stored last_sent_at never decreases.
C7_LastSentMonotone ==
    [][ IsSome(email_alert_state)
          => (IsSome(email_alert_state') /\ Val(email_alert_state') >= Val(email_alert_state))
      ]_vars

\* C8: nothing holds a cycle back at its read of last_sent_at while another
\* cycle is between its own read and its write.
C8_CheckThenSetUnguarded ==
    \A p, q \in Procs :
        ( /\ p # q /\ Taken
          /\ cycle[p].pc = "get_last"
          /\ cycle[q].pc \in { "dispatch", "send", "set_select", "set_write" } )
        => ENABLED GetLastAlertTime(p)

\* two overlapping cycles read the same last_sent_at and both delivered an
\* alert within one cooldown window
C8_Witness ==
    /\ Len(attempts) = 2
    /\ attempts[1].sent /\ attempts[2].sent
    /\ attempts[1].last_sent = attempts[2].last_sent
    /\ attempts[1].epoch = attempts[2].epoch
    /\ attempts[2].now - attempts[1].now < attempts[2].cooldown_minutes * SecondsPerMinute
    /\ attempts[1].now - attempts[2].now < attempts[1].cooldown_minutes * SecondsPerMinute

\* C9: every call of handle_new_reading_for_dashboard returns a boolean, also
\* when an access of the settings store or the alert-state store fails.
C9_OrchestrationTotal ==
    \A f \in DoneFrames : f.result \in { "True", "False" }
(***************************************************************************)
(* Properties of the request handlers.                                     *)
(***************************************************************************)
\* C3: every dashboard refresh (a step that logs a dashboard snapshot) runs
\* exactly one orchestration cycle.
C3_RefreshRunsOneCycle ==
    [][ dashboard_readings' # dashboard_readings
          => cycles_started' = cycles_started + 1 ]_vars

\* the three shapes of a forecast result
SuccessShape(r) ==
    /\ DOMAIN r = { "ok", "horizon_minutes", "history_count", "forecast_count", "mae",
                    "rmse", "margin_error", "margin_method", "forecast" }
    /\ r.ok = TRUE
NotEnoughShape(r) ==
    /\ DOMAIN r = { "ok", "reason", "history_count", "forecast" }
    /\ r.ok = FALSE /\ r.reason = "not_enough_history" /\ r.forecast = << >>
FailureShape(r) ==
    /\ DOMAIN r = { "ok", "error", "forecast" }
    /\ r.ok = FALSE /\ r.forecast = << >>

\* C10: whatever the settings, the history and the store failures, what
\* compute_aqi_forecast returns has the success shape, the not-enough-history
\* shape or the failure shape; nothing is raised.
C10_ForecastTotal ==
    forecast_result # None
    => \/ SuccessShape(Val(forecast_result))
       \/ NotEnoughShape(Val(forecast_result))
       \/ FailureShape(Val(forecast_result))

\* the history read failed although three rows are stored, and the failure
\* shape came back
C10_Witness ==
    /\ forecast_result # None
    /\ FailureShape(Val(forecast_result))
    /\ Len(dsm501a_readings) = MaxDsmRows
(***************************************************************************)
(* Properties of the forecast.                                             *)
(***************************************************************************)
\* the rows with a concentration; every stored row lies inside the lookback,
\* which is at least MinLookbackSeconds > MaxClock
Usable(table) == SelectSeq(table, LAMBDA r : r.concentration_ug_m3 # None)

\* a forecast has returned and its history read did not fail
Forecasted == forecast_result # None /\ "error" \notin DOMAIN Val(forecast_result)

\* C11: with fewer than 3 usable points the result is ok=false,
\* reason=not_enough_history, forecast=[], and _linear_forecast on such a
\* history fits nothing.
C11_TooFewPointsNoFit ==
    (Forecasted /\ Len(Usable(dsm501a_readings)) < 3)
    => /\ NotEnoughShape(Val(forecast_result))
       /\ Val(forecast_result).history_count = Len(Usable(dsm501a_readings))
       /\ \A fault \in BOOLEAN :
             LET h == horizon_minutes_from_settings(user_settings, fault)
             IN  linear_forecast(history_points(dsm501a_readings, clock, h), h, StepSeconds)
                    = NoFit

\* three rows stored, one without a concentration: not enough history
C11_Witness ==
    /\ Forecasted
    /\ Len(dsm501a_readings) = 3
    /\ Len(Usable(dsm501a_readings)) = 2
    /\ NotEnoughShape(Val(forecast_result))
    /\ Val(forecast_result).history_count = 2

\* C12: a history of 3 or more points that all carry the same timestamp is
\* answered like insufficient history: ok=false with an empty forecast.
C12_DegenerateFitRefused ==
    ( /\ Forecasted
      /\ Len(Usable(dsm501a_readings)) >= 3
      /\ \A i, j \in 1..Len(dsm501a_readings) :
            dsm501a_readings[i].ts = dsm501a_readings[j].ts )
    => (Val(forecast_result).ok = FALSE /\ Val(forecast_result).forecast = << >>)

\* C13: every forecast point has 0 <= aqi <= 500 and error >= 0, and every
\* history point's AQI lies in 0..500.
C13_ForecastWithinRange ==
    (forecast_result # None /\ SuccessShape(Val(forecast_result)))
    => LET r == Val(forecast_result)
           history == history_points(dsm501a_readings, clock, r.horizon_minutes)
       IN  /\ \A i \in 1..Len(r.forecast) :
                 /\ 0 <= r.forecast[i].aqi /\ r.forecast[i].aqi <= AqiMax
                 /\ r.forecast[i].error >= 0
           /\ \A k \in 1..Len(history) :
                 0 <= history[k].aqi /\ history[k].aqi <= AqiMax

\* a rising line whose later points are held at 500
C13_Witness ==
    /\ forecast_result # None /\ SuccessShape(Val(forecast_result))
    /\ LET f == Val(forecast_result).forecast
       IN  /\ Len(f) >= 2
           /\ 0 < f[1].aqi /\ f[1].aqi < AqiMax
           /\ f[Len(f)].aqi = AqiMax

\* the history gives a fit: 3 usable points or more, not all at one instant
ValidFit ==
    LET u == Usable(dsm501a_readings)
    IN  Len(u) >= 3 /\ \E i, j \in 1..Len(u) : u[i].ts # u[j].ts

\* C14: a valid fit has max(1, floor(horizon_minutes * 60 / 60)) forecast
\* points, and forecast_count is the length of the forecast list.
C14_ForecastCount ==
    (forecast_result # None /\ SuccessShape(Val(forecast_result)))
    => LET r == Val(forecast_result)
       IN  /\ r.forecast_count = Len(r.forecast)
           /\ ValidFit => Len(r.forecast) = Max2(1, (r.horizon_minutes * 60) \div 60)

\* a negative horizon still yields one point
C14_Witness ==
    /\ forecast_result # None /\ SuccessShape(Val(forecast_result))
    /\ ValidFit
    /\ Val(forecast_result).horizon_minutes < 0
    /\ Val(forecast_result).forecast_count = 1

\* C15: the i-th forecast point is at last_history_ts + i * 60; every forecast
\* timestamp is later than every history timestamp, and they increase.
C15_ForecastAfterHistory ==
    (forecast_result # None /\ SuccessShape(Val(forecast_result)))
    => LET f == Val(forecast_result).forecast
           u == Usable(dsm501a_readings)
       IN  \A i \in 1..Len(f) :
              /\ f[i].ts = u[Len(u)].ts + i * StepSeconds
              /\ \A k \in 1..Len(u) : u[k].ts < f[i].ts
              /\ i > 1 => f[i - 1].ts < f[i].ts

\* sixty points that follow a history ending at the present
C15_Witness ==
    /\ forecast_result # None /\ SuccessShape(Val(forecast_result))
    /\ LET f == Val(forecast_result).forecast
           u == Usable(dsm501a_readings)
       IN  /\ Len(f) = DefaultHorizonMinutes
           /\ u[Len(u)].ts = clock
           /\ f[1].ts = clock + StepSeconds

(***************************************************************************)
(* Properties of the helpers of resources/spike.py.                        *)
(***************************************************************************)
CallOf(fn) == call # None /\ Val(call).fn = fn

\* the rule as a condition on one key: the value is present and either at or
\* above the threshold, or a baseline mean sum / n exists, is positive, and
\* the value is at least 1.4 times it and above it by the minimum increase
SpikesByRule(c, k) ==
    /\ c.current_values[k] # None
    /\ LET current == Val(c.current_values[k])
       IN  \/ current >= c.thresholds[k]
           \/ /\ c.baseline_values # None
              /\ k \in DOMAIN Val(c.baseline_values)
              /\ LET b == Val(c.baseline_values)[k]
                 IN  /\ b.sum > 0
                     /\ 10 * current * b.n >= 14 * b.sum
                     /\ current * b.n - b.sum >= MIN_RELATIVE_INCREASE[k] * b.n

\* C16: detect_spiking_sensors returns exactly the keys whose current value is
\* present and is at or above the threshold, or has a positive baseline and is
\* at least relative_factor times it and above it by MIN_RELATIVE_INCREASE;
\* pm25 = 40.0 without baseline gives [pm25], temp = 29.0 on a baseline of
\* 20.0 gives temp although 29.0 < 32.0.
C16_SpikingKeysByRule ==
    CallOf("detect_spiking_sensors") =>
        LET c == Val(call)
            keys == { c.result[i] : i \in 1..Len(c.result) }
        IN  /\ Len(c.result) = Cardinality(keys)
            /\ keys = { k \in SensorKeySet : SpikesByRule(c, k) }
            /\ ( /\ c.current_values = Values([ pm25 |-> 400 ])
                 /\ c.baseline_values = None
                 /\ c.thresholds = DEFAULT_ABSOLUTE_THRESHOLDS )
               => c.result = << "pm25" >>
            /\ ( /\ c.current_values = Values([ temp |-> 290 ])
                 /\ c.baseline_values = Some([ k \in { "temp" } |-> [ sum |-> 200, n |-> 1 ] ]) )
               => c.result = << "temp" >>

\* a value below its threshold that spikes against its baseline
C16_Witness ==
    /\ CallOf("detect_spiking_sensors")
    /\ Val(call).current_values = Values([ temp |-> 290 ])
    /\ Val(call).baseline_values = Some([ k \in { "temp" } |-> [ sum |-> 200, n |-> 1 ] ])
    /\ Val(call).thresholds["temp"] = 320
    /\ Val(call).result = << "temp" >>

\* C17: the cooldown guard permits exactly when no last_sent_at is stored or
\* the minutes elapsed since it are at least cooldown_minutes, and suppresses
\* exactly when they are fewer; with 30 minutes, 5 minutes after the last
\* alert suppresses, 30 and 31 minutes after permit.
C17_CooldownGuard ==
    CallOf("cooldown_guard") =>
        LET c == Val(call)
            elapsed_seconds == c.now - Val(c.last_sent)
        IN  /\ c.result <=> ( \/ c.last_sent = None
                              \/ elapsed_seconds >= 60 * c.cooldown_minutes )
            /\ ~ c.result <=> ( /\ c.last_sent # None
                                /\ elapsed_seconds < 60 * c.cooldown_minutes )
            /\ ( c.cooldown_minutes = 30 /\ c.last_sent = Some(0) ) =>
                  /\ c.now = 300 => ~ c.result
                  /\ c.now = 1800 => c.result
                  /\ c.now = 1860 => c.result

\* exactly the cooldown has elapsed and the guard permits
C17_Witness ==
    /\ CallOf("cooldown_guard")
    /\ Val(call).cooldown_minutes = 30
    /\ Val(call).last_sent = Some(0)
    /\ Val(call).now = 1800
    /\ Val(call).result

\* C18: cooldown_minutes is max(forecast_duration, 1) when the latest settings
\* row has an integer forecast_duration, and 30 when there is no row, the
\* value is absent or not convertible, or the settings read fails; it is
\* always at least 1.
C18_CooldownMinutes ==
    CallOf("_get_cooldown_minutes_from_settings") =>
        LET c == Val(call)
            latest == c.rows[Len(c.rows)].forecast_duration
            integer == ~ c.settings_fault /\ c.rows # << >> /\ Len(latest) = 1
        IN  /\ integer => c.result = IF latest[1] > 1 THEN latest[1] ELSE 1
            /\ ~ integer => c.result = 30
            /\ c.result >= 1

\* a stored forecast_duration of 0 is raised to one minute
C18_Witness ==
    /\ CallOf("_get_cooldown_minutes_from_settings")
    /\ ~ Val(call).settings_fault
    /\ Val(call).rows # << >>
    /\ Val(call).rows[Len(Val(call).rows)].forecast_duration = Some(0)
    /\ Val(call).result = 1


\* C19: every cycle that reaches send_email leaves a row in email_alert_logs,
\* whether the delivery succeeded or failed.
C19_EveryAttemptLogged ==
    /\ \A f \in DoneFrames : f.send_calls > 0 => f.log_rows = f.send_calls
    /\ \A i \in 1..Len(attempts) : attempts[i].log_rows = attempts[i].send_calls

\* the instants at which the stored rows give the forecast the same history
SameHistoryInstants(horizon_minutes) ==
    { t \in StoredTs :
        history_points(dsm501a_readings, t, horizon_minutes)
            = history_points(dsm501a_readings, clock, horizon_minutes) }

\* C20: a forecast over the same history and horizon returns the same output
\* whenever it is asked, and a forecast call leaves last_sent_at, the alert
\* log and the settings log as they were.
C20_ForecastPureOfAlertState ==
    [][ (forecast_result = None /\ forecast_result' # None) =>
          /\ email_alert_state' = email_alert_state
          /\ email_alert_logs' = email_alert_logs
          /\ user_settings' = user_settings
          /\ "error" \notin DOMAIN Val(forecast_result') =>
                \E settings_fault \in BOOLEAN :
                   LET h == horizon_minutes_from_settings(user_settings, settings_fault)
                   IN  \A t \in SameHistoryInstants(h) :
                          forecast_body(dsm501a_readings, t, h) = Val(forecast_result')
      ]_vars

\* a forecast was fitted on a saved horizon, later than its last reading
C20_Witness ==
    /\ Forecasted
    /\ Val(forecast_result).ok
    /\ Val(forecast_result).forecast # << >>
    /\ user_settings # << >>
    /\ Val(forecast_result).horizon_minutes # DefaultHorizonMinutes
    /\ clock > dsm501a_readings[Len(dsm501a_readings)].ts
    /\ email_alert_state = None


(***************************************************************************)
(* Properties of the settings log.                                         *)
(***************************************************************************)
\* C21: a save only appends a row and leaves every earlier row as it was;
\* get_latest_settings returns the row of the most recent save, and None
\* while nothing has been saved.
C21_SettingsAppendOnly ==
    [][ /\ user_settings' # user_settings =>
              /\ Len(user_settings') = Len(user_settings) + 1
              /\ SubSeq(user_settings', 1, Len(user_settings)) = user_settings
              /\ user_settings'[Len(user_settings')] \in SettingsInputs
              /\ get_latest_settings(user_settings')
                    = Some(user_settings'[Len(user_settings')])
        /\ user_settings = << >> => get_latest_settings(user_settings) = None
      ]_vars

\* a second save of other values is the one that is read back
C21_Witness ==
    /\ Len(user_settings) = 2
    /\ user_settings[1] # user_settings[2]
    /\ get_latest_settings(user_settings) = Some(user_settings[2])


(***************************************************************************)
(* Properties of the order of the guards.                                  *)
(***************************************************************************)
GuardOrder == << "history", "cooldown", "baseline", "spiking", "alerts", "message" >>

IsPrefix(s, t) == Len(s) <= Len(t) /\ SubSeq(t, 1, Len(s)) = s

Ran(f, step) == \E i \in 1..Len(f.evaluated) : f.evaluated[i] = step

\* C22: a cycle evaluates its guards in the order history non-empty, cooldown
\* elapsed, spike set non-empty, recipient and notifications; a cycle the
\* cooldown suppresses runs neither the baseline nor the spike detection, and
\* the message is composed only with a recipient and notifications enabled.
C22_GuardsInOrder ==
    \A p \in Procs :
        LET f == cycle[p]
        IN  /\ IsPrefix(f.evaluated, GuardOrder)
            /\ (f.pc = "done" /\ f.history = << >>) => f.evaluated = << "history" >>
            /\ (Ran(f, "cooldown") /\ InCooldown(f))
                  => (f.evaluated = << "history", "cooldown" >> /\ f.settings = None)
            /\ Ran(f, "message") => AlertsEnabled(f)
            /\ (Ran(f, "alerts") /\ ~ AlertsEnabled(f) /\ f.pc = "done")
                  => (f.evaluated[Len(f.evaluated)] = "alerts" /\ f.result = "False")

\* a spiking history met the cooldown: the cycle stopped at the cooldown guard
C22_Witness ==
    \E f \in DoneFrames :
        /\ f.history = RisingHistory
        /\ InCooldown(f)
        /\ f.evaluated = << "history", "cooldown" >>
        /\ f.result = "False"


(***************************************************************************)
(* Properties of the spike set and of the baseline.                        *)
(***************************************************************************)
KeyIndex(key) == CHOOSE i \in 1..Len(SENSOR_KEYS) : SENSOR_KEYS[i] = key

\* C23: the result of detect_spiking_sensors holds only keys of SENSOR_KEYS,
\* in the order of SENSOR_KEYS, each at most once, also when a key matches
\* both the absolute and the relative rule.
C23_SpikingKeysOnce ==
    CallOf("detect_spiking_sensors") =>
        LET result == Val(call).result
        IN  /\ \A i \in 1..Len(result) : result[i] \in SensorKeySet
            /\ \A i \in 1..Len(result) : \A j \in 1..Len(result) :
                  i < j => KeyIndex(result[i]) < KeyIndex(result[j])

\* aqi is at its threshold and far above its baseline, and is returned once
C23_Witness ==
    /\ CallOf("detect_spiking_sensors")
    /\ LET c == Val(call)
       IN  /\ c.current_values["aqi"] = Some(1600)
           /\ AbsoluteSpike(1600, c.thresholds, "aqi")
           /\ RelativeSpike(1600, c.baseline_values, "aqi")
           /\ Len(SelectSeq(c.result, LAMBDA k : k = "aqi")) = 1
           /\ Len(c.result) > 1


\* the readings before the last one that carry a value of `key`
PriorWith(history, key) ==
    { i \in 1..(Len(history) - 1) : history[i].values[key] # None }

RECURSIVE SumAt(_, _, _)
SumAt(history, key, indices) ==
    IF indices = {} THEN 0
    ELSE LET i == CHOOSE j \in indices : TRUE
         IN  Val(history[i].values[key]) + SumAt(history, key, indices \ { i })

\* C24: _compute_baseline returns no baseline for fewer than 2 readings;
\* otherwise, per sensor, the mean of the sensor's values over the readings
\* before the last one, and no entry for a sensor without such a value; the
\* last reading does not contribute.
C24_BaselineIsPriorMean ==
    CallOf("_compute_baseline") =>
        LET history == Val(call).history
            result == Val(call).result
            entries == IF result = None THEN {} ELSE DOMAIN Val(result)
        IN  /\ Len(history) < 2 => result = None
            /\ Len(history) >= 2 =>
                  /\ entries = { k \in SensorKeySet : PriorWith(history, k) # {} }
                  /\ \A k \in entries :
                        /\ Val(result)[k].n = Cardinality(PriorWith(history, k))
                        /\ Val(result)[k].sum = SumAt(history, k, PriorWith(history, k))

\* the last reading carries the only temperature, and the baseline has none
C24_Witness ==
    /\ CallOf("_compute_baseline")
    /\ LET history == Val(call).history
       IN  /\ Len(history) = 3
           /\ history[3] = Reading(0, [ temp |-> 290 ])
           /\ history[1] = Reading(0, [ aqi |-> 400 ])
           /\ history[2] = Reading(0, [ aqi |-> 1000, temp |-> 200 ])
           /\ Val(call).result
                 = Some([ k \in { "aqi", "temp" } |->
                            IF k = "aqi" THEN [ sum |-> 1400, n |-> 2 ]
                            ELSE [ sum |-> 200, n |-> 1 ] ])


(***************************************************************************)
(* Properties of the alert-state store.                                    *)
(***************************************************************************)
\* C25: the alert-state store holds no record until a cycle whose dispatch
\* succeeded writes the first one; a record is never removed; and a cycle
\* that saw no record and finds one at its INSERT adds none: the INSERT
\* raises and the record stays as it is.
C25_AlertStateSingleton ==
    [][ /\ email_alert_state # None => email_alert_state' # None
        /\ (email_alert_state = None /\ email_alert_state' # None) =>
              \E p \in Procs :
                 /\ cycle[p].pc = "set_write" /\ cycle[p].sent /\ ~ cycle[p].row_seen
                 /\ email_alert_state' = Some(cycle[p].now)
        /\ \A p \in Procs :
              ( /\ cycle[p].pc = "set_write" /\ ~ cycle[p].row_seen
                /\ email_alert_state # None
                /\ cycle'[p].pc = "done" )
              => (cycle'[p].result = "raised" /\ email_alert_state' = email_alert_state)
      ]_vars

\* of two overlapping cycles that both saw no record, the second INSERT was refused
C25_Witness ==
    \E f \in DoneFrames :
        /\ f.sent /\ ~ f.row_seen /\ f.result = "raised"
        /\ email_alert_state # None
        /\ Len(attempts) = 2 /\ attempts[1].wrote = email_alert_state


(***************************************************************************)
(* Properties of the AQI values.                                           *)
(***************************************************************************)
\* C26: the predicted_peak of compute_aqi_trend lies within 0..500 for every
\* history.
C26_TrendWithinRange ==
    (CallOf("compute_aqi_trend") /\ Val(call).result # None) =>
        LET trend == Val(Val(call).result)
        IN  0 <= trend.predicted_peak /\ trend.predicted_peak <= AqiMax


\* C27: for one raw concentration the AQI of the forecast history equals the
\* AQI of the live dashboard.
C27_HistoryAqiIsLiveAqi ==
    CallOf("aqi_of_raw") => Val(call).history = Val(call).live

\* the upper bound of the last band of a table
TableTop(breakpoints) == breakpoints[Len(breakpoints)][2]

\* C28: _aqi_from_pm does not decrease as the concentration grows within the
\* range of the table, also between the upper bound of a band and the lower
\* bound of the next, and the upper bound of a band maps to the band's upper
\* index.
C28_AqiMonotone ==
    CallOf("_aqi_from_pm") =>
        LET c == Val(call)
            breakpoints == BreakpointTables[c.breakpoints]
        IN  /\ c.value < TableTop(breakpoints)
                 => c.result <= aqi_from_pm(Some(c.value + 1), breakpoints)
            /\ \A i \in 1..Len(breakpoints) :
                  c.value = breakpoints[i][2] => c.result = breakpoints[i][4] * 10


(***************************************************************************)
(* Properties of the history read.                                         *)
(***************************************************************************)
\* C29: the rows recent_dsm501a returns end with the newest stored row inside
\* the lookback, also when more than max_rows rows lie inside it.
C29_WindowEndsWithNewest ==
    CallOf("recent_dsm501a") =>
        LET c == Val(call)
            inside == { i \in 1..Len(c.table) : c.table[i].ts >= c.now - c.min_seconds_back }
        IN  inside # {} =>
               /\ c.result # << >>
               /\ \A i \in inside : c.result[Len(c.result)].ts >= c.table[i].ts


(***************************************************************************)
(* Properties of the settings a cycle uses.                                *)
(***************************************************************************)
\* C30: a cycle decides on one settings snapshot: the cooldown_minutes of its
\* guard and trend and the recipient and notifications flag of its dispatch
\* come from the same settings row, also when a save comes in between.
C30_OneSettingsSnapshot ==
    \A p \in Procs :
        Ran(cycle[p], "alerts") =>
            /\ cycle[p].rows_first = cycle[p].rows_last
            /\ cycle[p].cooldown_minutes = cooldown_minutes_from_settings(cycle[p].settings)

====
